---- MODULE Spec2Model ----
(***************************************************************************)
(* Student mentor service (src/app.py): the JWT token cache, the three     *)
(* authenticated backend calls, the request handler process_student and    *)
(* its two background tasks, and the deterministic habit scorer.           *)
(*                                                                         *)
(* Conventions.  A token is a positive integer (the n-th token the backend *)
(* issued); 0 stands for Python's None / a missing Authorization header.   *)
(* An HTTP outcome is its status code; NetErr stands for a                 *)
(* requests.exceptions.RequestException raised instead of a response.      *)
(* Bodies of 200/201 answers are taken to be valid JSON; the shape of the  *)
(* student snapshot is an input.                                           *)
(***************************************************************************)
EXTENDS Integers, Sequences, FiniteSets, TLC

\* ------------------------------------------------------------- bounds
MaxRequests == 1    \* requests handled by process_student (Spec)
MaxRacers == 2      \* concurrent get_student_info calls (SpecFetch)
MaxTokens == 3      \* tokens the backend issues before it refuses logins
MaxCalls == 6       \* calls made by the sequential caller (SpecSeq)
MaxRating == 120    \* largest pulse rating, in tenths (SpecPulse)
MaxComplaints == 7  \* longest complaint list (SpecComplaints)
MaxScore == 2790    \* largest stress score presented, in thirtieths (SpecPresent)
MaxReplyItems == 4  \* longest list in an LLM reply (SpecGuidance)
MaxContent == 4     \* longest content of an LLM reply (SpecGist)

\* ---------------------------------------------------------- constants
max_workers == 4
NetErr == 0

Kinds == {"wellbeing", "guidance"}
ReqThread(r) == <<"req", r>>
ReqThreadsOf(R) == {ReqThread(r) : r \in R}
TaskThreadsOf(R) == {<<k, r>> : k \in Kinds, r \in R}
SeqThread == <<"seq", 0>>

GetStatuses == {200, 400, 404, 401, 403, 500, NetErr}
PostStatuses == {201, 401, 403, 500, NetErr}
LoginOutcomes == {"ok", "neterr", "non200", "notoken"}
LoginFailures == {"nopw", "neterr", "non200", "notoken"}
Shapes == {"ok", "nondict", "badrating", "badinterests"}
\* The answers to GET /student/info/{id}: a 200 answer carries a snapshot.
GetAnswers == {[status |-> 200, shape |-> sh] : sh \in Shapes}
              \cup {[status |-> s, shape |-> "none"] : s \in GetStatuses \ {200}}

VARIABLES
  ADMIN_PASSWORD,    \* "" or the configured password
  DEEPSEEK_API_KEY,  \* "" or the configured LLM credential
  jwt_token,         \* the cached token, 0 when empty
  issued,            \* number of tokens the backend has issued
  pc,                \* thread -> position
  tok,               \* thread -> the token its get_jwt_token returned, which
                     \*           get_auth_headers puts in the Authorization header
  loginRes,          \* thread -> how its get_jwt_token ended
  reqs,              \* thread -> the outcomes of the data requests it sent
  clears,            \* thread -> number of clear_jwt_token calls it made
  info,              \* request -> shape of the fetched snapshot ("none" before)
  fetch,             \* request -> what get_student_info returned
  resp,              \* request -> the HTTP response of process_student
  submitted,         \* request -> the tasks handed to the executor, in order
  exc,               \* task thread -> "none" | "caught" | "escaped"
  seq,               \* the sequential caller's bookkeeping
  trace,             \* thread -> the logins it made and the tokens it sent, in order
  hab,               \* the run of calculate_habits_stress_score under study
  pul,               \* the run of calculate_pulse_stress_score under study
  cmp,               \* the run of analyze_complaints_with_deepseek under study
  tot,               \* the run of calculate_stress_score under study
  pres,              \* the run of the presentation functions under study
  gh,                \* the run of generate_personalized_habits under study
  gist               \* the run of generate_wellbeing_gist under study

vars == <<ADMIN_PASSWORD, DEEPSEEK_API_KEY, jwt_token, issued, pc, tok, loginRes,
          reqs, clears, info, fetch, resp, submitted, exc, seq, trace,
          hab, pul, cmp, tot, pres, gh, gist>>

\* The state of the pure computations, which the service's steps leave alone.
pure == <<hab, pul, cmp, tot, pres, gh, gist>>

\* The state of the service, which the pure computations leave alone.
system == <<ADMIN_PASSWORD, DEEPSEEK_API_KEY, jwt_token, issued, pc, tok, loginRes,
            reqs, clears, info, fetch, resp, submitted, exc, seq, trace>>

\* The requests, their threads and the task threads of the run.
Requests == DOMAIN fetch
ReqThreads == ReqThreadsOf(Requests)
TaskThreads == DOMAIN exc
Threads == DOMAIN pc

NoFetch == [error |-> "pending", status |-> 0]
NoResp == [body |-> "pending", code |-> 0]
SeqOff == [calls |-> 0, logins |-> 0, since |-> 0, first |-> 0, last |-> 0,
           rejected |-> FALSE]

\* No habits summary is being scored.
HabOff == [kind |-> "off", i |-> 0, prev |-> 0, score |-> 0, val |-> {},
           sub |-> 0, absent |-> 0, ret |-> {}]

\* No pulse is being scored.
PulOff == [kind |-> "off", rating |-> 0, ret |-> {}]

\* No complaint list is being scored.
NoReply == [kind |-> "none", value |-> 0]
CmpOff == [stage |-> "off", n |-> 0, described |-> 0, dicts |-> TRUE, calls |-> 0,
           reply |-> NoReply, ret |-> {}]

\* No stress score is being computed.
TotOff == [stage |-> "off", habits_score |-> 0, complaints_score |-> 0,
           pulse_score |-> 0, noHabits |-> FALSE, noComplaints |-> FALSE,
           noPulse |-> FALSE, ret |-> {}]

\* No stress score is being presented.
PresOff == [stage |-> "off", score |-> 0, pct |-> {}, colour |-> ""]

\* No guidance list is being generated.
NoHabitReply == [kind |-> "none", text |-> "bare", items |-> <<>>]
GhOff == [stage |-> "off", hobby |-> {}, screenHigh |-> FALSE, waterLow |-> FALSE,
          reply |-> NoHabitReply, path |-> "none", ret |-> <<>>]

\* No wellbeing gist is being generated.
NoGistReply == [kind |-> "none", content |-> <<>>]
GistOff == [stage |-> "off", habits |-> "absent", sleep_hours |-> {}, exercise_hours |-> {},
            screen_time |-> {}, n |-> 0, dicts |-> TRUE, pulse |-> "absent", rating |-> 0,
            calls |-> 0, reply |-> NoGistReply, gist_parts |-> <<>>,
            ret |-> [source |-> "none", len |-> 0]]

\* None of the pure computations is under study.
NoPureRun ==
  /\ hab = HabOff
  /\ pul = PulOff
  /\ cmp = CmpOff
  /\ tot = TotOff
  /\ pres = PresOff
  /\ gh = GhOff
  /\ gist = GistOff

\* The state after the module is loaded (lines 16-26): the configuration is
\* read, the cache is empty, nothing runs.  T: the threads of the run, R: its
\* requests, K: its task threads.
InitOf(T, R, K) ==
  /\ jwt_token = 0
  /\ issued = 0
  /\ pc = [t \in T |-> IF t \in ReqThreadsOf(R) THEN "start"
                       ELSE IF t \in K THEN "none" ELSE "idle"]
  /\ tok = [t \in T |-> 0]
  /\ loginRes = [t \in T |-> "none"]
  /\ reqs = [t \in T |-> <<>>]
  /\ clears = [t \in T |-> 0]
  /\ info = [r \in R |-> "none"]
  /\ fetch = [r \in R |-> NoFetch]
  /\ resp = [r \in R |-> NoResp]
  /\ submitted = [r \in R |-> <<>>]
  /\ exc = [t \in K |-> "none"]
  /\ seq = SeqOff
  /\ trace = [t \in T |-> <<>>]

Init ==
  /\ ADMIN_PASSWORD \in {"", "secret"}
  /\ DEEPSEEK_API_KEY \in {"", "key"}
  /\ NoPureRun
  /\ InitOf(ReqThreadsOf(1..MaxRequests) \cup TaskThreadsOf(1..MaxRequests),
            1..MaxRequests, TaskThreadsOf(1..MaxRequests))

\* ------------------------------------------------- the token cache

\* What a thread's trace notes: a login answered with a token (0: none), and
\* a data request sent with a token in its Authorization header (0: none).
LoginMade(token) == [op |-> "login", token |-> token]
RequestSent(token) == [op |-> "send", token |-> token]

\* Where a thread continues when get_jwt_token returns.
Return(t) == IF t = SeqThread THEN "idle" ELSE "send"

\* What the sequential caller notes when its get_jwt_token returns `token`.
SeqReturned(t, token, login, rejected) ==
  IF t = SeqThread
    THEN seq' = [seq EXCEPT !.calls = @ + 1,
                            !.since = @ + 1,
                            !.logins = @ + (IF login THEN 1 ELSE 0),
                            !.first = IF seq.since = 0 THEN token ELSE @,
                            !.last = token,
                            !.rejected = @ \/ rejected]
    ELSE seq' = seq

\* Line 41: `if _jwt_token:` under the lock.
CacheHit == jwt_token # 0

\* Line 44: `if not ADMIN_PASSWORD:`.
NoPassword == ADMIN_PASSWORD = ""

\* get_jwt_token up to the point where it returns or has sent the login:
\* the locked read of the cache, then the password test.
CheckCache(t) ==
  IF CacheHit
    THEN /\ tok' = [tok EXCEPT ![t] = jwt_token]
         /\ loginRes' = [loginRes EXCEPT ![t] = "cached"]
         /\ pc' = [pc EXCEPT ![t] = Return(t)]
         /\ SeqReturned(t, jwt_token, FALSE, FALSE)
  ELSE IF NoPassword
    THEN /\ tok' = [tok EXCEPT ![t] = 0]
         /\ loginRes' = [loginRes EXCEPT ![t] = "nopw"]
         /\ pc' = [pc EXCEPT ![t] = Return(t)]
         /\ SeqReturned(t, 0, FALSE, TRUE)
  ELSE   /\ tok' = tok
         /\ loginRes' = [loginRes EXCEPT ![t] = "inflight"]
         /\ pc' = [pc EXCEPT ![t] = "login"]
         /\ seq' = seq

\* A variant of LoginToken that takes the token field of any answered login,
\* without testing the status code.
LoginTokenAnyStatus(o) == IF o \in {"ok", "non200"} THEN issued + 1 ELSE 0

\* Lines 62-67: the token a login answer carries: present only in a 200
\* answer with one of the token fields.
LoginToken(o) == IF o = "ok" THEN issued + 1 ELSE 0

\* A variant of CacheAfterLogin that returns the token without storing it.
CacheAfterLoginNotStored(o) == jwt_token

\* Lines 67-69: what get_jwt_token leaves in the cache for a login answer.
CacheAfterLogin(o) == IF LoginToken(o) # 0 THEN LoginToken(o) ELSE jwt_token

\* The answer to POST /auth/login arrives; the rest of get_jwt_token.
LoginResponse(t, o) ==
  /\ pc[t] = "login"
  /\ o = "ok" => issued < MaxTokens
  /\ issued' = IF o = "ok" THEN issued + 1 ELSE issued
  /\ jwt_token' = CacheAfterLogin(o)
  /\ tok' = [tok EXCEPT ![t] = LoginToken(o)]
  /\ loginRes' = [loginRes EXCEPT ![t] = o]
  /\ pc' = [pc EXCEPT ![t] = Return(t)]
  /\ SeqReturned(t, LoginToken(o), TRUE, o # "ok")
  /\ trace' = [trace EXCEPT ![t] = Append(@, LoginMade(LoginToken(o)))]
  /\ UNCHANGED <<pure, ADMIN_PASSWORD, DEEPSEEK_API_KEY, reqs, clears, info, fetch,
                 resp, submitted, exc>>

\* A variant of ClearJwtToken that leaves the cached token in place.
ClearJwtTokenSkipped(t) ==
  /\ jwt_token' = jwt_token
  /\ clears' = [clears EXCEPT ![t] = @ + 1]

\* clear_jwt_token: the cache is emptied under the lock.
ClearJwtToken(t) ==
  /\ jwt_token' = 0
  /\ clears' = [clears EXCEPT ![t] = @ + 1]

\* The headers built by get_auth_headers are used up by the request they
\* are sent with: the local token and the login answer go out of scope.
HeadersUsed(t) ==
  /\ tok' = [tok EXCEPT ![t] = 0]
  /\ loginRes' = [loginRes EXCEPT ![t] = "none"]

\* ------------------------------------------- get_student_info

IsAuthFailure(status) == status = 401 \/ status = 403

\* A variant of ShouldRetry that retries as long as the answer is 401/403.
ShouldRetryWhileUnauthorized(status, attempt) == IsAuthFailure(status)

\* Line 128: the retry is decided on the first response only.
ShouldRetry(status, attempt) == attempt = 1 /\ IsAuthFailure(status)

\* Lines 133-144: the (error, status_code) get_student_info returns.
FetchResult(status) ==
  IF status = NetErr THEN [error |-> "Connection error", status |-> 500]
  ELSE IF status = 200 THEN [error |-> "", status |-> 200]
  ELSE IF status = 400 THEN [error |-> "Invalid student ID", status |-> 400]
  ELSE IF status = 404 THEN [error |-> "Student not found", status |-> 404]
  ELSE IF IsAuthFailure(status)
    THEN [error |-> "Authentication failed", status |-> status]
  ELSE [error |-> "Error", status |-> status]

\* process_student is called: get_student_info asks for the auth headers.
Arrive(r) ==
  LET t == ReqThread(r) IN
  /\ pc[t] = "start"
  /\ CheckCache(t)
  /\ UNCHANGED <<pure, trace, ADMIN_PASSWORD, DEEPSEEK_API_KEY, jwt_token, issued, reqs,
                 clears, info, fetch, resp, submitted, exc>>

\* GET /student/info/{id} is sent with the headers in hand and answered.
Get(r, answer) ==
  LET t == ReqThread(r)
      status == answer.status
      attempt == Len(reqs[t]) + 1 IN
  /\ pc[t] = "send"
  /\ reqs' = [reqs EXCEPT ![t] = Append(@, status)]
  /\ IF ShouldRetry(status, attempt)
       THEN /\ pc' = [pc EXCEPT ![t] = "clear"]
            /\ UNCHANGED <<fetch, info>>
       ELSE /\ pc' = [pc EXCEPT ![t] = "fetched"]
            /\ fetch' = [fetch EXCEPT ![r] = FetchResult(status)]
            /\ info' = [info EXCEPT ![r] = answer.shape]
  /\ HeadersUsed(t)
  /\ trace' = [trace EXCEPT ![t] = Append(@, RequestSent(tok[t]))]
  /\ UNCHANGED <<pure, ADMIN_PASSWORD, DEEPSEEK_API_KEY, jwt_token, issued, clears,
                 resp, submitted, exc, seq>>

\* clear_jwt_token after the first 401/403.
Clear(r) ==
  LET t == ReqThread(r) IN
  /\ pc[t] = "clear"
  /\ ClearJwtToken(t)
  /\ pc' = [pc EXCEPT ![t] = "token"]
  /\ UNCHANGED <<pure, trace, ADMIN_PASSWORD, DEEPSEEK_API_KEY, issued, tok, loginRes, reqs,
                 info, fetch, resp, submitted, exc, seq>>

\* The second get_auth_headers of get_student_info.
Reauth(r) ==
  LET t == ReqThread(r) IN
  /\ pc[t] = "token"
  /\ CheckCache(t)
  /\ UNCHANGED <<pure, trace, ADMIN_PASSWORD, DEEPSEEK_API_KEY, jwt_token, issued, reqs,
                 clears, info, fetch, resp, submitted, exc>>

\* ----------------------------------------------- process_student

\* A variant of FetchFailed that treats only server-side statuses as failures.
FetchFailedOnlyServerError(res) == res.error # "" /\ res.status >= 500

\* Line 1140: `if error:`.
FetchFailed(res) == res.error # ""

ReturnError(r) ==
  LET t == ReqThread(r) IN
  /\ pc[t] = "fetched"
  /\ FetchFailed(fetch[r])
  /\ resp' = [resp EXCEPT ![r] = [body |-> fetch[r].error, code |-> fetch[r].status]]
  /\ pc' = [pc EXCEPT ![t] = "done"]
  /\ UNCHANGED <<pure, trace, ADMIN_PASSWORD, DEEPSEEK_API_KEY, jwt_token, issued, tok,
                 loginRes, reqs, clears, info, fetch, submitted, exc, seq>>

\* executor.submit(fn, ...): the task is queued.
Submit(r, k) ==
  /\ submitted' = [submitted EXCEPT ![r] = Append(@, k)]
  /\ pc[<<k, r>>] = "none"

\* Line 1147.
SubmitWellbeing(r) ==
  LET t == ReqThread(r) IN
  /\ pc[t] = "fetched"
  /\ ~FetchFailed(fetch[r])
  /\ Submit(r, "wellbeing")
  /\ pc' = [pc EXCEPT ![t] = "submit_g", ![<<"wellbeing", r>>] = "queued"]
  /\ UNCHANGED <<pure, trace, ADMIN_PASSWORD, DEEPSEEK_API_KEY, jwt_token, issued, tok,
                 loginRes, reqs, clears, info, fetch, resp, exc, seq>>

\* A variant of SubmitGuidance that goes on without submitting the task.
SubmitGuidanceSkipped(r) ==
  LET t == ReqThread(r) IN
  /\ pc[t] = "submit_g"
  /\ pc' = [pc EXCEPT ![t] = "return"]
  /\ UNCHANGED <<pure, trace, ADMIN_PASSWORD, DEEPSEEK_API_KEY, jwt_token, issued, tok,
                 loginRes, reqs, clears, info, fetch, resp, submitted, exc, seq>>

\* Line 1148.
SubmitGuidance(r) ==
  LET t == ReqThread(r) IN
  /\ pc[t] = "submit_g"
  /\ Submit(r, "guidance")
  /\ pc' = [pc EXCEPT ![t] = "return", ![<<"guidance", r>>] = "queued"]
  /\ UNCHANGED <<pure, trace, ADMIN_PASSWORD, DEEPSEEK_API_KEY, jwt_token, issued, tok,
                 loginRes, reqs, clears, info, fetch, resp, exc, seq>>

Return202(r) ==
  LET t == ReqThread(r) IN
  /\ pc[t] = "return"
  /\ resp' = [resp EXCEPT ![r] = [body |-> "", code |-> 202]]
  /\ pc' = [pc EXCEPT ![t] = "done"]
  /\ UNCHANGED <<pure, trace, ADMIN_PASSWORD, DEEPSEEK_API_KEY, jwt_token, issued, tok,
                 loginRes, reqs, clears, info, fetch, submitted, exc, seq>>

\* ------------------------------------------------ background tasks

Running == {t \in TaskThreads : pc[t] \in {"running", "login", "send"}}

\* A variant of Startable in which the guidance task is chained after the
\* wellbeing task of its request.
StartableChained(t) ==
  /\ pc[t] = "queued"
  /\ Cardinality(Running) < max_workers
  /\ t[1] = "guidance" => pc[<<"wellbeing", t[2]>>] = "done"

\* A queued task is taken by a free worker of the pool.
Startable(t) == pc[t] = "queued" /\ Cardinality(Running) < max_workers

StartTask(t) ==
  /\ Startable(t)
  /\ pc' = [pc EXCEPT ![t] = "running"]
  /\ UNCHANGED <<pure, trace, ADMIN_PASSWORD, DEEPSEEK_API_KEY, jwt_token, issued, tok,
                 loginRes, reqs, clears, info, fetch, resp, submitted, exc, seq>>

\* Whether the task's computation raises on a snapshot of this shape.
\* wellbeing: calculate_stress_score reads student_info.get(...) and compares
\* the pulse rating with 0, outside any try.  guidance: without an LLM
\* credential generate_personalized_habits reads interests.get(...) outside
\* any try; with one, everything is inside its own try/except Exception.
ComputeRaises(k, shape, key) ==
  IF k = "wellbeing" THEN shape \in {"nondict", "badrating"}
  ELSE key = "" /\ shape \in {"nondict", "badinterests"}

\* A variant of Catches that handles request errors only, like the
\* `except requests.exceptions.RequestException` of the save functions.
CatchesRequestErrorsOnly(k) == FALSE

\* `except Exception` of the task wrappers: every exception is handled.
Catches(k) == TRUE

\* The computation ends: either it raised, or save_* asks for the headers.
Compute(t) ==
  /\ t \in TaskThreads
  /\ pc[t] = "running"
  /\ IF ComputeRaises(t[1], info[t[2]], DEEPSEEK_API_KEY)
       THEN /\ exc' = [exc EXCEPT ![t] = IF Catches(t[1]) THEN "caught" ELSE "escaped"]
            /\ pc' = [pc EXCEPT ![t] = "done"]
            /\ UNCHANGED <<tok, loginRes, seq>>
       ELSE /\ CheckCache(t)
            /\ exc' = exc
  /\ UNCHANGED <<pure, trace, ADMIN_PASSWORD, DEEPSEEK_API_KEY, jwt_token, issued, reqs,
                 clears, info, fetch, resp, submitted>>

\* save_wellbeing_data / save_guidances: the POST is sent and answered; any
\* answer ends the call (201: the body, otherwise None).
Post(t, status) ==
  /\ t \in TaskThreads
  /\ pc[t] = "send"
  /\ reqs' = [reqs EXCEPT ![t] = Append(@, status)]
  /\ pc' = [pc EXCEPT ![t] = "done"]
  /\ HeadersUsed(t)
  /\ trace' = [trace EXCEPT ![t] = Append(@, RequestSent(tok[t]))]
  /\ UNCHANGED <<pure, ADMIN_PASSWORD, DEEPSEEK_API_KEY, jwt_token, issued, clears,
                 info, fetch, resp, submitted, exc, seq>>

\* ------------------------------------------------- specification

Next ==
  \/ \E t \in Threads, o \in LoginOutcomes : LoginResponse(t, o)
  \/ \E r \in Requests : Arrive(r)
  \/ \E r \in Requests, a \in GetAnswers : Get(r, a)
  \/ \E r \in Requests : Clear(r)
  \/ \E r \in Requests : Reauth(r)
  \/ \E r \in Requests : ReturnError(r)
  \/ \E r \in Requests : SubmitWellbeing(r)
  \/ \E r \in Requests : SubmitGuidance(r)
  \/ \E r \in Requests : Return202(r)
  \/ \E t \in TaskThreads : StartTask(t)
  \/ \E t \in TaskThreads : Compute(t)
  \/ \E t \in TaskThreads, s \in PostStatuses : Post(t, s)

Spec == Init /\ [][Next]_vars

\* ------------------------------------ concurrent get_student_info calls
\* MaxRacers threads are each inside get_student_info (the first stage of
\* process_student); the run ends when each call has returned.

InitFetch ==
  /\ ADMIN_PASSWORD \in {"", "secret"}
  /\ DEEPSEEK_API_KEY = ""
  /\ NoPureRun
  /\ InitOf(ReqThreadsOf(1..MaxRacers), 1..MaxRacers, {})

NextFetch ==
  \/ \E t \in Threads, o \in LoginOutcomes : LoginResponse(t, o)
  \/ \E r \in Requests : Arrive(r)
  \/ \E r \in Requests, a \in GetAnswers : Get(r, a)
  \/ \E r \in Requests : Clear(r)
  \/ \E r \in Requests : Reauth(r)

SpecFetch == InitFetch /\ [][NextFetch]_vars

\* --------------------------------------------- one sequential caller
\* A single thread calls get_jwt_token and clear_jwt_token one after the
\* other, in any order.

SeqGetToken ==
  /\ pc[SeqThread] = "idle"
  /\ seq.calls < MaxCalls
  /\ CheckCache(SeqThread)
  /\ UNCHANGED <<pure, trace, ADMIN_PASSWORD, DEEPSEEK_API_KEY, jwt_token, issued, reqs,
                 clears, info, fetch, resp, submitted, exc>>

SeqClear ==
  /\ pc[SeqThread] = "idle"
  /\ seq.calls < MaxCalls
  /\ ClearJwtToken(SeqThread)
  /\ seq' = [seq EXCEPT !.calls = @ + 1, !.since = 0, !.logins = 0, !.first = 0]
  /\ UNCHANGED <<pure, trace, ADMIN_PASSWORD, DEEPSEEK_API_KEY, issued, pc, tok,
                 loginRes, reqs, info, fetch, resp, submitted, exc>>

InitSeq ==
  /\ ADMIN_PASSWORD \in {"", "secret"}
  /\ DEEPSEEK_API_KEY = ""
  /\ NoPureRun
  /\ InitOf({SeqThread}, {}, {})

NextSeq ==
  \/ SeqGetToken
  \/ SeqClear
  \/ \E o \in LoginOutcomes : LoginResponse(SeqThread, o)

SpecSeq == InitSeq /\ [][NextSeq]_vars

\* ------------------------------------------- the habit scorer
\* A metric read with habits_summary.get(...) is an option: {} when the key
\* is missing or null, {v} otherwise.  Float metrics are in tenths (hours,
\* litres, meals, times per week); the two integer metrics are in units.  A
\* string is the sequence of its characters.

Val(opt) == CHOOSE x \in opt : TRUE

UpperCase == <<"A", "B", "C", "D", "E", "F", "G", "H", "I", "J", "K", "L", "M",
               "N", "O", "P", "Q", "R", "S", "T", "U", "V", "W", "X", "Y", "Z">>
LowerCase == <<"a", "b", "c", "d", "e", "f", "g", "h", "i", "j", "k", "l", "m",
               "n", "o", "p", "q", "r", "s", "t", "u", "v", "w", "x", "y", "z">>

\* str.lower(), character by character.
lower(s) ==
  [i \in 1..Len(s) |->
     IF \E j \in 1..26 : UpperCase[j] = s[i]
       THEN LowerCase[CHOOSE j \in 1..26 : UpperCase[j] = s[i]]
       ELSE s[i]]

\* `term in s` for strings.
Contains(term, s) ==
  \E k \in 0..(Len(s) - Len(term)) : SubSeq(s, k + 1, k + Len(term)) = term

Max(a, b) == IF a >= b THEN a ELSE b
Min(a, b) == IF a <= b THEN a ELSE b

score_sleep_quality(quality) ==
  IF quality = {} THEN 1
  ELSE LET q == Max(0, Min(100, Val(quality))) IN
       IF q >= 80 THEN 0 ELSE IF q >= 60 THEN 1 ELSE 2

score_sleep_hours(hours) ==
  IF hours = {} THEN 1
  ELSE LET h == Val(hours) IN
       IF 70 <= h /\ h <= 90 THEN 0
       ELSE IF (60 <= h /\ h < 70) \/ (90 < h /\ h <= 100) THEN 1
       ELSE 2

score_bedtime(bedtime) ==
  IF bedtime = {} THEN 1
  ELSE LET b == Val(bedtime) % 240 IN
       IF 220 <= b /\ b <= 230 THEN 0
       ELSE IF (210 <= b /\ b < 220) \/ (0 <= b /\ b < 10) THEN 1
       ELSE 2

score_wake_time(wake_time) ==
  IF wake_time = {} THEN 1
  ELSE LET w == Val(wake_time) % 240 IN
       IF 60 <= w /\ w <= 70 THEN 0
       ELSE IF (50 <= w /\ w < 60) \/ (70 < w /\ w <= 80) THEN 1
       ELSE 2

score_water_intake(liters) ==
  IF liters = {} THEN 1
  ELSE LET l == Val(liters) IN
       IF 20 <= l /\ l <= 30 THEN 0
       ELSE IF (15 <= l /\ l < 20) \/ (30 < l /\ l <= 40) THEN 1
       ELSE 2

\* A variant of score_junk_food_frequency that rates a missing value as the
\* worst one.
score_junk_food_frequency_missing_worst(frequency) ==
  IF frequency = {} THEN 2
  ELSE IF Val(frequency) <= 10 THEN 0
  ELSE IF Val(frequency) <= 30 THEN 1
  ELSE 2

score_junk_food_frequency(frequency) ==
  IF frequency = {} THEN 1
  ELSE IF Val(frequency) <= 10 THEN 0
  ELSE IF Val(frequency) <= 30 THEN 1
  ELSE 2

score_meals_consumed(meals) ==
  IF meals = {} THEN 1
  ELSE LET m == Val(meals) IN
       IF 25 <= m /\ m <= 35 THEN 0
       ELSE IF (20 <= m /\ m < 25) \/ (35 < m /\ m <= 40) THEN 1
       ELSE 2

score_exercise_hours(hours) ==
  IF hours = {} THEN 1
  ELSE LET h == Val(hours) IN
       IF 10 <= h /\ h <= 20 THEN 0
       ELSE IF (5 <= h /\ h < 10) \/ (20 < h /\ h <= 30) THEN 1
       ELSE 2

monthly_target == 10000

\* monthly_target * 0.7 is the float 7000.0.
score_calories_burned(calories) ==
  IF calories = {} THEN 1
  ELSE LET c == Max(0, Val(calories)) IN
       IF c >= monthly_target THEN 0
       ELSE IF 10 * c >= monthly_target * 7 THEN 1
       ELSE 2

high_intensity ==
    {<<"r", "u", "n", "n", "i", "n", "g">>,
     <<"c", "y", "c", "l", "i", "n", "g">>,
     <<"s", "w", "i", "m", "m", "i", "n", "g">>,
     <<"h", "i", "i", "t">>,
     <<"c", "r", "o", "s", "s", "f", "i", "t">>}
moderate ==
    {<<"w", "a", "l", "k", "i", "n", "g">>,
     <<"y", "o", "g", "a">>,
     <<"p", "i", "l", "a", "t", "e", "s">>,
     <<"d", "a", "n", "c", "i", "n", "g">>}

score_exercise_type(exercise_type) ==
  IF exercise_type = {} THEN 1
  ELSE LET exercise_type_lower == lower(Val(exercise_type)) IN
       IF \E term \in high_intensity : Contains(term, exercise_type_lower) THEN 0
       ELSE IF \E term \in moderate : Contains(term, exercise_type_lower) THEN 1
       ELSE 2

score_screen_time_hours(hours) ==
  IF hours = {} THEN 1
  ELSE IF Val(hours) <= 20 THEN 0
  ELSE IF Val(hours) <= 40 THEN 1
  ELSE 2

score_pre_sleep_screen_time(hours) ==
  IF hours = {} THEN 1
  ELSE IF Val(hours) <= 5 THEN 0
  ELSE IF Val(hours) <= 10 THEN 1
  ELSE 2

score_media_duration(hours) ==
  IF hours = {} THEN 1
  ELSE IF Val(hours) <= 10 THEN 0
  ELSE IF Val(hours) <= 20 THEN 1
  ELSE 2

score_educational_content_count(count) ==
  IF count = {} THEN 1
  ELSE IF Val(count) >= 20 THEN 0
  ELSE IF Val(count) >= 10 THEN 1
  ELSE 2

educational ==
    {<<"k", "h", "a", "n", " ", "a", "c", "a", "d", "e", "m", "y">>,
     <<"c", "o", "u", "r", "s", "e", "r", "a">>,
     <<"e", "d", "x">>,
     <<"u", "d", "e", "m", "y">>,
     <<"y", "o", "u", "t", "u", "b", "e", " ", "e", "d", "u", "c", "a", "t", "i", "o", "n">>}
neutral ==
    {<<"y", "o", "u", "t", "u", "b", "e">>,
     <<"n", "e", "t", "f", "l", "i", "x">>,
     <<"s", "p", "o", "t", "i", "f", "y">>}

score_platform(platform) ==
  IF platform = {} THEN 1
  ELSE LET platform_lower == lower(Val(platform)) IN
       IF \E term \in educational : Contains(term, platform_lower) THEN 0
       ELSE IF \E term \in neutral : Contains(term, platform_lower) THEN 1
       ELSE 2

\* The fields calculate_habits_stress_score reads, in the order it reads them.
HabitFields ==
  <<"averageSleepQuality", "averageSleepHours", "averageBedtime", "averageWakeTime",
    "averageWaterIntake", "averageJunkFoodFrequency", "averageMealsConsumed",
    "averageExerciseHours", "totalCaloriesBurned", "mostCommonExerciseType",
    "averageScreenTimeHours", "averagePreSleepScreenTime",
    "averageMediaDuration", "educationalContentCount", "mostUsedPlatform">>

\* The values a field is given: both sides of each threshold of its scorer,
\* values outside its nominal range, strings in mixed case.
HabitValues(f) ==
  CASE f = "averageSleepQuality" -> {-10, 0, 59, 60, 79, 80, 100, 150}
    [] f = "averageSleepHours" -> {0, 59, 60, 69, 70, 90, 91, 100, 101}
    [] f = "averageBedtime" -> {-10, 0, 9, 10, 209, 210, 219, 220, 230, 231, 240, 460}
    [] f = "averageWakeTime" -> {-180, 49, 50, 59, 60, 70, 71, 80, 81, 300}
    [] f = "averageWaterIntake" -> {0, 14, 15, 19, 20, 30, 31, 40, 41}
    [] f = "averageJunkFoodFrequency" -> {0, 10, 11, 30, 31}
    [] f = "averageMealsConsumed" -> {19, 20, 24, 25, 35, 36, 40, 41}
    [] f = "averageExerciseHours" -> {0, 4, 5, 9, 10, 20, 21, 30, 31}
    [] f = "totalCaloriesBurned" -> {-5, 0, 6999, 7000, 9999, 10000}
    [] f = "mostCommonExerciseType" ->
         {<<"R", "u", "n", "n", "i", "n", "g">>,
          <<"H", "I", "I", "T">>,
          <<"Y", "o", "g", "a", " ", "t", "h", "e", "n", " ", "c", "y", "c", "l", "i", "n", "g">>,
          <<"W", "A", "L", "K", "I", "N", "G">>,
          <<"c", "h", "e", "s", "s">>,
          <<>>}
    [] f = "averageScreenTimeHours" -> {0, 20, 21, 40, 41}
    [] f = "averagePreSleepScreenTime" -> {0, 5, 6, 10, 11}
    [] f = "averageMediaDuration" -> {0, 10, 11, 20, 21}
    [] f = "educationalContentCount" -> {0, 9, 10, 19, 20}
    [] f = "mostUsedPlatform" ->
         {<<"Y", "o", "u", "T", "u", "b", "e">>,
          <<"Y", "o", "u", "T", "u", "b", "e", " ", "E", "d", "u", "c", "a", "t", "i", "o", "n">>,
          <<"C", "o", "u", "r", "s", "e", "r", "a">>,
          <<"n", "e", "t", "f", "l", "i", "x">>,
          <<"T", "i", "k", "T", "o", "k">>}

\* The results of habits_summary.get(f).
HabitOptions(f) == {{}} \cup {{v} : v \in HabitValues(f)}

\* The sub-score lines 380-402 add for field f.
SubScore(f, opt) ==
  CASE f = "averageSleepQuality" -> score_sleep_quality(opt)
    [] f = "averageSleepHours" -> score_sleep_hours(opt)
    [] f = "averageBedtime" -> score_bedtime(opt)
    [] f = "averageWakeTime" -> score_wake_time(opt)
    [] f = "averageWaterIntake" -> score_water_intake(opt)
    [] f = "averageJunkFoodFrequency" -> score_junk_food_frequency(opt)
    [] f = "averageMealsConsumed" -> score_meals_consumed(opt)
    [] f = "averageExerciseHours" -> score_exercise_hours(opt)
    [] f = "totalCaloriesBurned" -> score_calories_burned(opt)
    [] f = "mostCommonExerciseType" -> score_exercise_type(opt)
    [] f = "averageScreenTimeHours" -> score_screen_time_hours(opt)
    [] f = "averagePreSleepScreenTime" -> score_pre_sleep_screen_time(opt)
    [] f = "averageMediaDuration" -> score_media_duration(opt)
    [] f = "educationalContentCount" -> score_educational_content_count(opt)
    [] f = "mostUsedPlatform" -> score_platform(opt)

\* The summaries: None ("absent"), {} ("empty"), a dict with entries.
HabitKinds == {"absent", "empty", "present"}

\* Line 374: `if not habits_summary:`.
NoSummary(kind) == kind \in {"absent", "empty"}

\* A variant of HabitsDefault that scores a missing summary 0.
HabitsDefaultZero ==
  /\ NoSummary(hab.kind)
  /\ hab.ret = {}
  /\ hab' = [hab EXCEPT !.ret = {0}]
  /\ UNCHANGED <<system, pul, cmp, tot, pres, gh, gist>>

\* Lines 374-375.
HabitsDefault ==
  /\ NoSummary(hab.kind)
  /\ hab.ret = {}
  /\ hab' = [hab EXCEPT !.ret = {15}]
  /\ UNCHANGED <<system, pul, cmp, tot, pres, gh, gist>>

\* One of lines 380-402: the next field is read and its sub-score added.
HabitsField(opt) ==
  /\ hab.kind = "present"
  /\ hab.i < Len(HabitFields)
  /\ LET f == HabitFields[hab.i + 1]
         s == SubScore(f, opt) IN
     hab' = [hab EXCEPT !.i = @ + 1,
                        !.val = opt,
                        !.sub = s,
                        !.score = @ + s,
                        !.absent = @ + (IF opt = {} THEN 1 ELSE 0)]
  /\ UNCHANGED <<system, pul, cmp, tot, pres, gh, gist>>

\* Line 404.
HabitsReturn ==
  /\ hab.kind = "present"
  /\ hab.i = Len(HabitFields)
  /\ hab.ret = {}
  /\ hab' = [hab EXCEPT !.ret = {Min(30, Max(0, hab.score))}]
  /\ UNCHANGED <<system, pul, cmp, tot, pres, gh, gist>>

InitHabits ==
  /\ ADMIN_PASSWORD = ""
  /\ DEEPSEEK_API_KEY = ""
  /\ hab \in {[HabOff EXCEPT !.kind = k] : k \in HabitKinds}
  /\ pul = PulOff
  /\ cmp = CmpOff
  /\ tot = TotOff
  /\ pres = PresOff
  /\ gh = GhOff
  /\ gist = GistOff
  /\ InitOf({}, {}, {})

NextHabits ==
  \/ HabitsDefault
  \/ \E opt \in HabitOptions(HabitFields[Min(hab.i + 1, Len(HabitFields))]) :
       HabitsField(opt)
  \/ HabitsReturn

SpecHabits == InitHabits /\ [][NextHabits]_vars

\* ------------------------------------------- the pulse scorer
\* Scores are counted in thirtieths of a point, so that the 24/9 of line 512
\* is exact for a rating in tenths; ratings are in tenths.

Scale == 30

Clamp(x, lo, hi) == Min(hi, Max(lo, x))

\* The pulses: None ("absent"), {} ("empty"), a dict whose rating is missing
\* or null ("norating"), a dict with a numeric rating ("rated").
PulseKinds == {"absent", "empty", "norating", "rated"}

\* The ratings a pulse is given.
Ratings == (0 - 10)..MaxRating

\* Line 492: `if not pulse or pulse.get('rating') is None`.
NoRating(kind) == kind \in {"absent", "empty", "norating"}

\* A variant of InvalidRating that lets a zero rating through.
InvalidRatingNegativeOnly(rating) == rating < 0

\* Line 498: `if rating <= 0`.
InvalidRating(rating) == rating <= 0

\* Line 508: ratings from 6 on are read on the 1-10 scale.
TenScale(rating) == rating >= 60

\* A variant of InvertedRating that forgets the inversion.
InvertedRatingForgotten(rating) == rating

\* Line 516: inverted_rating = 6 - rating.
InvertedRating(rating) == 60 - rating

\* Lines 508-517: the score before the clamp.
PulseRaw(rating) ==
  IF TenScale(rating)
    THEN 30 * Scale - (rating - 10) * 8
    ELSE InvertedRating(rating) * 18

calculate_pulse_stress_score(kind, rating) ==
  IF NoRating(kind) THEN 18 * Scale
  ELSE IF InvalidRating(rating) THEN 18 * Scale
  ELSE Clamp(PulseRaw(rating), 6 * Scale, 30 * Scale)

\* The pulses with a rating in R, and those without rating.
PulseInputsOf(R) ==
  {[PulOff EXCEPT !.kind = k] : k \in PulseKinds \ {"rated"}}
    \cup {[PulOff EXCEPT !.kind = "rated", !.rating = r] : r \in R}

\* The pulses calculate_pulse_stress_score is called with.
PulseInputs == PulseInputsOf(Ratings)

\* calculate_pulse_stress_score returns.
PulseReturn ==
  /\ pul.kind # "off"
  /\ pul.ret = {}
  /\ pul' = [pul EXCEPT !.ret = {calculate_pulse_stress_score(pul.kind, pul.rating)}]
  /\ UNCHANGED <<system, hab, cmp, tot, pres, gh, gist>>

InitPulse ==
  /\ ADMIN_PASSWORD = ""
  /\ DEEPSEEK_API_KEY = ""
  /\ hab = HabOff
  /\ pul \in PulseInputs
  /\ cmp = CmpOff
  /\ tot = TotOff
  /\ pres = PresOff
  /\ gh = GhOff
  /\ gist = GistOff
  /\ InitOf({}, {}, {})

NextPulse == PulseReturn

SpecPulse == InitPulse /\ [][NextPulse]_vars

\* ------------------------------------------- the complaints scorer
\* A complaint list is given by its length n, the number of its complaints
\* that carry a non-empty description, and whether each of its elements is a
\* dict.  The LLM's reply is an input.  Scores are in thirtieths.

\* The replies of the LLM call of lines 459-472: an exception raised by the
\* call or while the reply is taken apart, a status other than 200, a content
\* float() rejects, a content float() accepts.
LlmNumbers == {0 - 50, 0, 3, 125, 300, 301, 1000}
LlmReplies ==
  {[kind |-> k, value |-> 0] : k \in {"exception", "non200", "unparseable", "nan", "inf"}}
    \cup {[kind |-> "number", value |-> v] : v \in LlmNumbers}

\* A variant of HeuristicScore without the cap.
HeuristicScoreUncapped(n) == n * 5 * Scale

\* Lines 416, 476, 479, 484: min(30.0, len(complaints) * 5.0).
HeuristicScore(n) == Min(30 * Scale, n * 5 * Scale)

\* A variant of ParsedScore that returns the number as the LLM gave it.
ParsedScoreUnclamped(reply) == reply.value * 3

\* Lines 472-473: float(content) clamped to [0,30]; the value is in tenths.
\* max(0.0, nan) is 0.0 and float('inf') is clamped to 30.
ParsedScore(reply) ==
  IF reply.kind = "nan" THEN 0
  ELSE IF reply.kind = "inf" THEN 30 * Scale
  ELSE Clamp(reply.value * 3, 0, 30 * Scale)

\* Lines 466-484: the score for a reply.
ReplyScore(reply, n) ==
  IF reply.kind \in {"number", "nan", "inf"} THEN ParsedScore(reply)
  ELSE HeuristicScore(n)

\* The complaint lists analyze_complaints_with_deepseek is called with: n
\* complaints of which d carry a description; an element that is no dict
\* carries none.
ComplaintInputs ==
  {[CmpOff EXCEPT !.stage = "called", !.n = x[1], !.described = x[2], !.dicts = TRUE] :
     x \in {y \in (0..MaxComplaints) \X (0..MaxComplaints) : y[2] <= y[1]}}
    \cup
  {[CmpOff EXCEPT !.stage = "called", !.n = x[1], !.described = x[2], !.dicts = FALSE] :
     x \in {y \in (1..MaxComplaints) \X (0..MaxComplaints) : y[2] < y[1]}}

\* Lines 411-429: up to the return or to the LLM call.
ComplaintsStart ==
  /\ cmp.stage = "called"
  /\ IF cmp.n = 0
       THEN cmp' = [cmp EXCEPT !.stage = "returned", !.ret = {0}]
     ELSE IF DEEPSEEK_API_KEY = ""
       THEN cmp' = [cmp EXCEPT !.stage = "returned", !.ret = {HeuristicScore(cmp.n)}]
     ELSE IF ~cmp.dicts
       THEN cmp' = [cmp EXCEPT !.stage = "returned", !.ret = {HeuristicScore(cmp.n)}]
     ELSE IF cmp.described = 0
       THEN cmp' = [cmp EXCEPT !.stage = "returned", !.ret = {0}]
     ELSE cmp' = [cmp EXCEPT !.stage = "llm", !.calls = @ + 1]
  /\ UNCHANGED <<system, hab, pul, tot, pres, gh, gist>>

\* Lines 459-484: the LLM call ends.
ComplaintsReply(reply) ==
  /\ cmp.stage = "llm"
  /\ cmp' = [cmp EXCEPT !.stage = "returned",
                        !.reply = reply,
                        !.ret = {ReplyScore(reply, cmp.n)}]
  /\ UNCHANGED <<system, hab, pul, tot, pres, gh, gist>>

InitComplaints ==
  /\ ADMIN_PASSWORD = ""
  /\ DEEPSEEK_API_KEY \in {"", "key"}
  /\ hab = HabOff
  /\ pul = PulOff
  /\ cmp \in ComplaintInputs
  /\ tot = TotOff
  /\ pres = PresOff
  /\ gh = GhOff
  /\ gist = GistOff
  /\ InitOf({}, {}, {})

NextComplaints ==
  \/ ComplaintsStart
  \/ \E reply \in LlmReplies : ComplaintsReply(reply)

SpecComplaints == InitComplaints /\ [][NextComplaints]_vars

\* ------------------------------------------- percentage and colour
\* A stress score is counted in thirtieths of a point.

\* The scores the presentation functions are given: from -3 to 93 points.
Scores == (0 - 3 * Scale)..MaxScore

\* The scores s (in thirtieths) for which s / 90 * 100 is a whole number but
\* the double-precision value of (stress_score / 90.0) * 100 lies just below
\* it: 6.3, 12.6, 25.2, 50.4, 51.3, 71.1 and 80.1 points.
FloatShortfall == {189, 378, 756, 1512, 1539, 2133, 2403}

\* s / 90 * 100 cut off towards zero.
Truncated(s) ==
  IF s >= 0 THEN (s * 100) \div (90 * Scale)
  ELSE 0 - (((0 - s) * 100) \div (90 * Scale))

\* s / 90 * 100 rounded to the nearest whole number (no score in thirtieths
\* lies halfway between two).
Rounded(s) ==
  IF s >= 0 THEN (s * 200 + 90 * Scale) \div (180 * Scale)
  ELSE 0 - (((0 - s) * 200 + 90 * Scale) \div (180 * Scale))

\* A variant of IntOfQuotient that rounds to the nearest whole number.
IntOfQuotientRounded(s) == Rounded(s)

\* Line 546: int((stress_score / 90.0) * 100).
IntOfQuotient(s) == IF s \in FloatShortfall THEN Truncated(s) - 1 ELSE Truncated(s)

\* A variant of ClampPercent without the upper limit.
ClampPercentFromBelow(p) == Max(0, p)

\* Line 547: min(100, max(0, percentage)).
ClampPercent(p) == Min(100, Max(0, p))

stress_score_to_percentage(stress_score) == ClampPercent(IntOfQuotient(stress_score))

\* A variant of get_stress_color whose bands include their lower limit.
get_stress_color_lower_inclusive(stress_score) ==
  IF stress_score < 30 * Scale THEN "GREEN"
  ELSE IF stress_score < 60 * Scale THEN "YELLOW"
  ELSE IF stress_score < 75 * Scale THEN "ORANGE"
  ELSE "RED"

get_stress_color(stress_score) ==
  IF stress_score <= 30 * Scale THEN "GREEN"
  ELSE IF stress_score <= 60 * Scale THEN "YELLOW"
  ELSE IF stress_score <= 75 * Scale THEN "ORANGE"
  ELSE "RED"

\* The order of the colours, from low to high stress.
ColourRank(c) ==
  CASE c = "GREEN" -> 0 [] c = "YELLOW" -> 1 [] c = "ORANGE" -> 2 [] c = "RED" -> 3

\* Line 1035 of save_wellbeing_data.
PresentPercentage ==
  /\ pres.stage = "called"
  /\ pres' = [pres EXCEPT !.stage = "percent",
                          !.pct = {stress_score_to_percentage(pres.score)}]
  /\ UNCHANGED <<system, hab, pul, cmp, tot, gh, gist>>

\* Lines 1036-1042 of save_wellbeing_data: the colour, then the payload.
PresentColour ==
  /\ pres.stage = "percent"
  /\ pres' = [pres EXCEPT !.stage = "payload",
                          !.colour = get_stress_color(pres.score)]
  /\ UNCHANGED <<system, hab, pul, cmp, tot, gh, gist>>

InitPresent ==
  /\ ADMIN_PASSWORD = ""
  /\ DEEPSEEK_API_KEY = ""
  /\ hab = HabOff
  /\ pul = PulOff
  /\ cmp = CmpOff
  /\ tot = TotOff
  /\ pres \in {[PresOff EXCEPT !.stage = "called", !.score = s] : s \in Scores}
  /\ gh = GhOff
  /\ gist = GistOff
  /\ InitOf({}, {}, {})

NextPresent ==
  \/ PresentPercentage
  \/ PresentColour

SpecPresent == InitPresent /\ [][NextPresent]_vars

\* ------------------------------------------- the stress score
\* calculate_stress_score calls the three scorers one after the other on the
\* fields of the snapshot; each scorer's locals are gone when it has
\* returned.  All scores are in thirtieths.

\* The values of the three scores: whole habits scores, complaints scores
\* in half points and as parsed from the replies, the scores of all ratings.
HabitScoreValues == {k * Scale : k \in 0..30}
ComplaintScoreValues == {k * 15 : k \in 0..60} \cup {ParsedScore(r) : r \in LlmReplies}
PulseScoreValues == {calculate_pulse_stress_score("rated", r) : r \in Ratings}

\* The whole ratings.  With a whole rating the double-precision sum of line
\* 537 has the percentage and the colour of the exact sum; with a fractional
\* rating the product of line 517 can be one unit in the last place off (1.2
\* gives 28.799999999999997), which moves the percentage of a sum whose
\* exact percentage is whole.  calculate_stress_score is run on whole ratings.
WholeRatings == {r \in Ratings : r % 10 = 0}

\* A variant of StressTotal that leaves the pulse score out.
StressTotalWithoutPulse(habits_score, complaints_score, pulse_score) ==
  Clamp(habits_score + complaints_score, 0, 90 * Scale)

\* Lines 537-539.
StressTotal(habits_score, complaints_score, pulse_score) ==
  Clamp(habits_score + complaints_score + pulse_score, 0, 90 * Scale)

\* Line 533 has returned; line 534 calls the complaints scorer with
\* student_info.get('unresolvedComplaints') or [].
StressHabits ==
  /\ tot.stage = "habits"
  /\ hab.ret # {}
  /\ tot' = [tot EXCEPT !.stage = "complaints",
                        !.habits_score = Val(hab.ret) * Scale,
                        !.noHabits = (hab.kind = "absent")]
  /\ hab' = HabOff
  /\ cmp' \in ComplaintInputs
  /\ UNCHANGED <<system, pul, pres, gh, gist>>

\* Line 534 has returned; line 535 calls the pulse scorer.
StressComplaints ==
  /\ tot.stage = "complaints"
  /\ cmp.stage = "returned"
  /\ tot' = [tot EXCEPT !.stage = "pulse",
                        !.complaints_score = Val(cmp.ret),
                        !.noComplaints = (cmp.n = 0)]
  /\ cmp' = CmpOff
  /\ pul' \in PulseInputsOf(WholeRatings)
  /\ UNCHANGED <<system, hab, pres, gh, gist>>

\* Line 535 has returned.
StressPulse ==
  /\ tot.stage = "pulse"
  /\ pul.ret # {}
  /\ tot' = [tot EXCEPT !.stage = "sum",
                        !.pulse_score = Val(pul.ret),
                        !.noPulse = (pul.kind = "absent")]
  /\ pul' = PulOff
  /\ UNCHANGED <<system, hab, cmp, pres, gh, gist>>

\* Lines 537-539.
StressReturn ==
  /\ tot.stage = "sum"
  /\ tot' = [tot EXCEPT !.stage = "returned",
                        !.ret = {StressTotal(tot.habits_score, tot.complaints_score,
                                             tot.pulse_score)}]
  /\ UNCHANGED <<system, hab, cmp, pul, pres, gh, gist>>

\* Lines 1083-1089 of process_wellbeing_async: the score is handed to
\* save_wellbeing_data.
StressPresent ==
  /\ tot.stage = "returned"
  /\ pres.stage = "off"
  /\ pres' = [PresOff EXCEPT !.stage = "called", !.score = Val(tot.ret)]
  /\ UNCHANGED <<system, hab, cmp, pul, tot, gh, gist>>

InitStress ==
  /\ ADMIN_PASSWORD = ""
  /\ DEEPSEEK_API_KEY \in {"", "key"}
  /\ hab \in {[HabOff EXCEPT !.kind = k] : k \in HabitKinds}
  /\ pul = PulOff
  /\ cmp = CmpOff
  /\ tot = [TotOff EXCEPT !.stage = "habits"]
  /\ pres = PresOff
  /\ gh = GhOff
  /\ gist = GistOff
  /\ InitOf({}, {}, {})

NextStress ==
  \/ NextHabits
  \/ StressHabits
  \/ NextComplaints
  \/ StressComplaints
  \/ NextPulse
  \/ StressPulse
  \/ StressReturn
  \/ StressPresent
  \/ NextPresent

SpecStress == InitStress /\ [][NextStress]_vars

\* ------------------------------------------- guidance generation
\* A string is given by its length.  The LLM's reply is an input: an
\* exception, a status other than 200, a content that is no JSON list, or a
\* content that holds a JSON list; an element of the list is a non-blank
\* string, a blank string, a dict with a description, or anything else.  The
\* content that holds a list is the list alone ("bare"), the list inside
\* text without square brackets such as a markdown fence ("fenced"), or the
\* list inside text with square brackets of its own ("bracketed").

\* The lengths of the fixed strings of lines 594-611 and 796-807.
LenHobbyHabit(hobbyLen) == 73 + hobbyLen
LenActivityHabit == 81
LenScreenBreakHabit == 76
LenMeditationHabit == 70
LenWaterHabit == 83
LenReadingHabit == 66
FallbackHabits == <<56, 59>>

\* The lengths of the strings the inputs are built from.
TextLengths == {1, 200, 201}
HobbyLengths == {4, 127, 128}

ReplyItems ==
  {[kind |-> k, len |-> n] : k \in {"str", "dict"}, n \in TextLengths}
    \cup {[kind |-> "blank", len |-> 2], [kind |-> "other", len |-> 0]}

\* The sequences over S of length at most n.
SeqsUpTo(S, n) == UNION {[1..k -> S] : k \in 0..n}

\* The replies of the LLM call of lines 762-787.
ContentTexts == {"bare", "fenced", "bracketed"}
HabitReplies ==
  {[kind |-> k, text |-> "bare", items |-> <<>>] : k \in {"exception", "non200", "nolist"}}
    \cup {[kind |-> "list", text |-> x, items |-> q] :
             x \in ContentTexts, q \in SeqsUpTo(ReplyItems, MaxReplyItems)}

\* Lines 769-771: the span from the first "[" to the last "]" of the content
\* replaces the content; it is the list unless the text around the list has
\* brackets.
SpanIsList(text) == text # "bracketed"

\* Lines 774-776: json.loads(content) is a list; {} when it raises
\* JSONDecodeError or is no list.
ParsedList(reply) ==
  IF reply.kind = "list" /\ SpanIsList(reply.text) THEN {reply.items} ELSE {}

\* Lines 779-783: the elements that are kept.
Valid(item) == item.kind \in {"str", "dict"}

\* Lines 780, 783: str(...)[:200].
Kept(item) == Min(200, item.len)

\* Lines 776-783: validated_habits for a parsed list.
ValidatedHabits(items) ==
  LET head == SubSeq(items, 1, Min(3, Len(items)))
      valid == SelectSeq(head, Valid) IN
  [i \in 1..Len(valid) |-> Kept(valid[i])]

\* Lines 776-785: the reply is a list of which an element is kept.
Accepted(reply) ==
  ParsedList(reply) # {} /\ ValidatedHabits(Val(ParsedList(reply))) # <<>>

\* Lines 765-807: the list returned for a reply.
HabitsForReply(reply) ==
  IF Accepted(reply) THEN ValidatedHabits(Val(ParsedList(reply))) ELSE FallbackHabits

\* Lines 583-613: the list returned without LLM credential.  hobby: the
\* length of the first hobby, {} without hobbies.
HeuristicHabits(hobby, screenHigh, waterLow) ==
  <<IF hobby # {} THEN LenHobbyHabit(Val(hobby)) ELSE LenActivityHabit,
    IF screenHigh THEN LenScreenBreakHabit ELSE LenMeditationHabit,
    IF waterLow THEN LenWaterHabit ELSE LenReadingHabit>>

\* The snapshots generate_personalized_habits is called with.
GuidanceInputs ==
  {[GhOff EXCEPT !.stage = "called", !.hobby = h, !.screenHigh = s, !.waterLow = w] :
     h \in {{}} \cup {{n} : n \in HobbyLengths}, s \in BOOLEAN, w \in BOOLEAN}

\* Lines 583-613, or the way to the LLM call of line 762.
GuidanceStart ==
  /\ gh.stage = "called"
  /\ IF DEEPSEEK_API_KEY = ""
       THEN gh' = [gh EXCEPT !.stage = "returned", !.path = "heuristic",
                             !.ret = HeuristicHabits(gh.hobby, gh.screenHigh, gh.waterLow)]
       ELSE gh' = [gh EXCEPT !.stage = "llm"]
  /\ UNCHANGED <<system, hab, pul, cmp, tot, pres, gist>>

\* Lines 762-807: the LLM call ends.
GuidanceReply ==
  /\ gh.stage = "llm"
  /\ \E reply \in HabitReplies :
       gh' = [gh EXCEPT !.stage = "returned", !.reply = reply,
                       !.path = IF Accepted(reply) THEN "accepted" ELSE "fallback",
                       !.ret = HabitsForReply(reply)]
  /\ UNCHANGED <<system, hab, pul, cmp, tot, pres, gist>>

InitGuidance ==
  /\ ADMIN_PASSWORD = ""
  /\ DEEPSEEK_API_KEY \in {"", "key"}
  /\ hab = HabOff
  /\ pul = PulOff
  /\ cmp = CmpOff
  /\ tot = TotOff
  /\ pres = PresOff
  /\ gh \in GuidanceInputs
  /\ gist = GistOff
  /\ InitOf({}, {}, {})

NextGuidance ==
  \/ GuidanceStart
  \/ GuidanceReply

SpecGuidance == InitGuidance /\ [][NextGuidance]_vars

\* ------------------------------------------------ generate_wellbeing_gist
\* Lines 853-1018.  The averages are in tenths, the pulse rating in tenths, {}
\* when the field is missing or None.  A returned text is given by where it
\* comes from and by its length; the content of an LLM reply is a sequence of
\* characters, so that stripping it is computed.

\* The lengths of the fixed texts of lines 881-913 and 1014, without the
\* formatted numbers.
LenSleepGood == 87
LenSleepLow == 86
LenExerciseGood == 79
LenExerciseLow == 83
LenScreenHigh == 108
LenComplaintsSome == 94
LenComplaintsNone == 69
LenMoodGood == 85
LenMoodModerate == 83
LenMoodLow == 118
LenBalanced == 245
LenApology == 92

\* f"{x:.1f}" for 0 <= x < 100, x in tenths: "d.d" or "dd.d".
LenOneDecimal(x) == IF x < 100 THEN 3 ELSE 4

\* str(n) for 0 <= n < 100.
LenCount(n) == IF n < 10 THEN 1 ELSE 2

\* Python's truth value of a number or None.
Truthy(opt) == opt # {} /\ Val(opt) # 0

\* Lines 879-883: the sentence about sleep.
SleepPart(sleep_hours) ==
  IF ~Truthy(sleep_hours) THEN <<>>
  ELSE IF Val(sleep_hours) >= 70
         THEN <<LenSleepGood + LenOneDecimal(Val(sleep_hours))>>
         ELSE <<LenSleepLow + LenOneDecimal(Val(sleep_hours))>>

\* Lines 885-889: the sentence about exercise.
ExercisePart(exercise_hours) ==
  IF ~Truthy(exercise_hours) THEN <<>>
  ELSE IF Val(exercise_hours) >= 10
         THEN <<LenExerciseGood + LenOneDecimal(Val(exercise_hours))>>
         ELSE <<LenExerciseLow>>

\* Lines 891-892: the sentence about screen time.
ScreenPart(screen_time) ==
  IF Truthy(screen_time) /\ Val(screen_time) > 40 THEN <<LenScreenHigh>> ELSE <<>>

\* Lines 874-892: the sentences about the habits; none without a summary.
HabitsParts(habits, sleep_hours, exercise_hours, screen_time) ==
  IF habits = "present"
    THEN SleepPart(sleep_hours) \o ExercisePart(exercise_hours) \o ScreenPart(screen_time)
    ELSE <<>>

\* A variant of ComplaintsPart without the sentence of line 898.
ComplaintsPartOnlyPending(n) ==
  IF n > 0 THEN <<LenComplaintsSome + LenCount(n)>> ELSE <<>>

\* Lines 895-898: the sentence about the complaints.
ComplaintsPart(n) ==
  IF n > 0 THEN <<LenComplaintsSome + LenCount(n)>> ELSE <<LenComplaintsNone>>

\* Lines 901-908: the sentence about the pulse.
PulsePart(pulse, rating) ==
  IF pulse # "rated" \/ rating = 0 THEN <<>>
  ELSE IF rating >= 40 THEN <<LenMoodGood>>
  ELSE IF rating >= 20 THEN <<LenMoodModerate>>
  ELSE <<LenMoodLow>>

\* Lines 871-908: gist_parts.
GistParts(g) ==
  HabitsParts(g.habits, g.sleep_hours, g.exercise_hours, g.screen_time)
    \o ComplaintsPart(g.n) \o PulsePart(g.pulse, g.rating)

\* The length of " ".join(parts).
RECURSIVE LenJoined(_)
LenJoined(parts) ==
  IF parts = <<>> THEN 0
  ELSE IF Len(parts) = 1 THEN parts[1]
  ELSE parts[1] + 1 + LenJoined(Tail(parts))

\* Lines 910-913: the text returned without LLM credential.
HeuristicGist(parts) ==
  IF parts # <<>> THEN [source |-> "joined", len |-> LenJoined(parts)]
  ELSE [source |-> "balanced", len |-> LenBalanced]

\* Lines 1014 and 1018: the apology.
Apology == [source |-> "apology", len |-> LenApology]

\* str.strip() over the characters " " and "x".
RECURSIVE lstrip(_)
lstrip(s) == IF s # <<>> /\ Head(s) = " " THEN lstrip(Tail(s)) ELSE s
RECURSIVE rstrip(_)
rstrip(s) ==
  IF s # <<>> /\ s[Len(s)] = " " THEN rstrip(SubSeq(s, 1, Len(s) - 1)) ELSE s
strip(s) == rstrip(lstrip(s))

\* The replies of the LLM call of lines 1000-1009: the call raises, the status
\* is not 200, the body has not the parts line 1009 reads (the line raises),
\* the content is missing (''), or the content is a text.
Contents == SeqsUpTo({" ", "x"}, MaxContent)
GistReplies ==
  {[kind |-> k, content |-> <<>>] : k \in {"exception", "non200", "malformed", "nocontent"}}
    \cup {[kind |-> "text", content |-> c] : c \in Contents}

\* A variant of HasContent that tests the content before it is stripped.
HasContentUnstripped(content) == content # <<>>

\* Line 1010: `if content`, after the strip of line 1009.
HasContent(content) == strip(content) # <<>>

\* Lines 1007-1018: the text returned for a reply.
GistForReply(reply) ==
  IF reply.kind = "text" /\ HasContent(reply.content)
    THEN [source |-> "content", len |-> Len(strip(reply.content))]
    ELSE Apology

\* Lines 955-960: building the prompt raises when a complaint is no dict.
PromptRaises(g) == g.n > 0 /\ ~g.dicts

\* The snapshots generate_wellbeing_gist is called with.
GistHours == {{}, {0}, {65}, {70}, {100}}
GistExercise == {{}, {0}, {5}, {10}}
GistScreen == {{}, {40}, {41}}
GistPulses ==
  {<<"absent", 0>>, <<"norating", 0>>}
    \cup {<<"rated", r>> : r \in {0 - 10, 0, 10, 20, 39, 40}}
GistInputs ==
  {[GistOff EXCEPT !.stage = "called", !.n = n, !.dicts = d,
                   !.pulse = p[1], !.rating = p[2]] :
     n \in 0..2, d \in BOOLEAN, p \in GistPulses}
    \cup {[GistOff EXCEPT !.stage = "called", !.habits = "present", !.sleep_hours = sl,
                          !.exercise_hours = ex, !.screen_time = sc, !.n = n,
                          !.pulse = p[1], !.rating = p[2]] :
            sl \in GistHours, ex \in GistExercise, sc \in GistScreen,
            n \in {0, 1, 10}, p \in GistPulses}

\* Lines 865-913, or the way to the LLM call of line 1000 (lines 915-998).
GistStart ==
  /\ gist.stage = "called"
  /\ IF DEEPSEEK_API_KEY = ""
       THEN gist' = [gist EXCEPT !.stage = "returned", !.gist_parts = GistParts(gist),
                                 !.ret = HeuristicGist(GistParts(gist))]
       ELSE IF PromptRaises(gist)
         THEN gist' = [gist EXCEPT !.stage = "returned", !.ret = Apology]
         ELSE gist' = [gist EXCEPT !.stage = "llm", !.calls = @ + 1]
  /\ UNCHANGED <<system, hab, pul, cmp, tot, pres, gh>>

\* Lines 1000-1018: the LLM call ends.
GistReply ==
  /\ gist.stage = "llm"
  /\ \E reply \in GistReplies :
       gist' = [gist EXCEPT !.stage = "returned", !.reply = reply,
                            !.ret = GistForReply(reply)]
  /\ UNCHANGED <<system, hab, pul, cmp, tot, pres, gh>>

InitGist ==
  /\ ADMIN_PASSWORD = ""
  /\ DEEPSEEK_API_KEY \in {"", "key"}
  /\ hab = HabOff
  /\ pul = PulOff
  /\ cmp = CmpOff
  /\ tot = TotOff
  /\ pres = PresOff
  /\ gh = GhOff
  /\ gist \in GistInputs
  /\ InitOf({}, {}, {})

NextGist ==
  \/ GistStart
  \/ GistReply

SpecGist == InitGist /\ [][NextGist]_vars

\* ================================================================ claims

FetchReturned(r) == fetch[r] # NoFetch
LastOf(q) == q[Len(q)]

\* C1: when get_student_info reports a failure, process_student answers
\* with that error message and that status code (the status of the last
\* GET, 500 for a network error), and no background task of the request is
\* ever submitted.
C1_FetchFailureIsTheOnlyResult ==
  \A r \in Requests :
    (FetchReturned(r) /\ fetch[r].error # "") =>
      /\ submitted[r] = <<>>
      /\ \A k \in Kinds : pc[<<k, r>>] = "none"
      /\ pc[ReqThread(r)] \in {"fetched", "done"}
      /\ fetch[r].status = (IF LastOf(reqs[ReqThread(r)]) = NetErr
                              THEN 500 ELSE LastOf(reqs[ReqThread(r)]))
      /\ resp[r] = IF pc[ReqThread(r)] = "done"
                     THEN [body |-> fetch[r].error, code |-> fetch[r].status]
                     ELSE NoResp

\* C1 witness: a request answered 404 "Student not found".
C1_Witness ==
  \E r \in Requests :
    /\ pc[ReqThread(r)] = "done"
    /\ resp[r] = [body |-> "Student not found", code |-> 404]

\* C2: when the fetch succeeds, exactly two tasks, one wellbeing and one
\* guidance, are submitted and the request is answered 202; the answer
\* does not wait for the tasks: it can be given whatever their state.
C2_AcceptedSubmitsTwoTasksWithoutWaiting ==
  \A r \in Requests :
    /\ resp[r].code = 202 =>
         fetch[r].error = "" /\ submitted[r] = <<"wellbeing", "guidance">>
    /\ (pc[ReqThread(r)] = "done" /\ fetch[r].error = "") => resp[r].code = 202
    /\ pc[ReqThread(r)] = "return" => ENABLED Return202(r)
    /\ Len(submitted[r]) <= 2

\* C2 witness: the 202 is given while neither task has been started.
C2_Witness ==
  \E r \in Requests :
    /\ resp[r].code = 202
    /\ pc[<<"wellbeing", r>>] = "queued"
    /\ pc[<<"guidance", r>>] = "queued"

\* C3: get_student_info sends at most two GETs; the second is sent exactly
\* when the first answer is 401/403, after one clear_jwt_token and a new
\* get_jwt_token; no other status and no network error is retried; a second
\* 401/403 ends the call with the authentication failure of that status.
C3_OneRetryOnUnauthorized ==
  \A r \in Requests :
    LET t == ReqThread(r)
        q == reqs[t] IN
    /\ Len(q) <= 2
    /\ clears[t] <= 1
    /\ clears[t] = 1 <=> (Len(q) >= 1 /\ IsAuthFailure(q[1]) /\ pc[t] # "clear")
    /\ Len(q) = 2 => clears[t] = 1
    /\ (pc[t] = "send" /\ Len(q) = 1) => loginRes[t] # "none"
    /\ FetchReturned(r) =>
         /\ Len(q) = (IF IsAuthFailure(q[1]) THEN 2 ELSE 1)
         /\ IsAuthFailure(LastOf(q)) =>
              fetch[r] = [error |-> "Authentication failed", status |-> LastOf(q)]

\* C3 witness: a call answered 401 and then 403 has ended with status 403.
C3_Witness ==
  \E r \in Requests :
    /\ reqs[ReqThread(r)] = <<401, 403>>
    /\ fetch[r].status = 403
    /\ clears[ReqThread(r)] = 1

\* C4: each backend operation, the two POSTs included, answers a 401/403 by
\* clearing the cached token once and sending its request once more.
C4_EveryOperationRetriesOnUnauthorized ==
  \A t \in Threads :
    (pc[t] \in {"fetched", "done"} /\ reqs[t] # <<>> /\ IsAuthFailure(reqs[t][1]))
      => (clears[t] = 1 /\ Len(reqs[t]) = 2)

\* C5: for a sequential caller with a password configured and a backend
\* that accepts every login: the first get_jwt_token after start or after a
\* clear_jwt_token performs one login and caches its token, and every later
\* call until the next clear returns that token without a login.
C5_SequentialCallsLoginOnce ==
  (ADMIN_PASSWORD # "" /\ ~seq.rejected) =>
    /\ pc[SeqThread] = "login" => (seq.since = 0 /\ seq.logins = 0)
    /\ (pc[SeqThread] = "idle" /\ seq.since = 0) => (seq.logins = 0 /\ jwt_token = 0)
    /\ (pc[SeqThread] = "idle" /\ seq.since >= 1) =>
         /\ seq.logins = 1
         /\ seq.first # 0
         /\ seq.last = seq.first
         /\ jwt_token = seq.first
         /\ tok[SeqThread] = seq.first

\* C5 witness: after a clear the caller logged in a second time and then
\* got the second token from the cache.
C5_Witness ==
  /\ ~seq.rejected
  /\ pc[SeqThread] = "idle"
  /\ clears[SeqThread] >= 1
  /\ issued = 2
  /\ seq.since >= 2
  /\ seq.last = 2

\* C6: a get_jwt_token that ends in a login failure (no password, network
\* error, non-200 answer, 200 answer without token) returns none, so that
\* its caller goes on to send its request without Authorization header, and
\* does not touch the cache; without a password no login is ever sent and
\* the cache stays empty.
C6_LoginFailureYieldsNone ==
  /\ [](\A t \in Threads :
          loginRes[t] \in LoginFailures => (pc[t] = Return(t) /\ tok[t] = 0))
  /\ [](NoPassword =>
          /\ issued = 0
          /\ jwt_token = 0
          /\ \A t \in Threads : pc[t] # "login" /\ loginRes[t] \in {"none", "nopw"})
  /\ [][\A t \in Threads :
          (loginRes'[t] \in LoginFailures /\ loginRes[t] \notin LoginFailures)
            => jwt_token' = jwt_token]_vars

\* C6 witness: after a 200 login answer without token a background task is
\* about to send its POST without Authorization header.
C6_Witness ==
  \E t \in TaskThreads :
    /\ loginRes[t] = "notoken"
    /\ pc[t] = "send"
    /\ tok[t] = 0

\* C7: at most one login request is in flight at any time.
C7_AtMostOneLoginInFlight ==
  Cardinality({t \in Threads : pc[t] = "login"}) <= 1

\* C8: whatever is raised in a background task, and whatever the answer to
\* its POST, the task ends normally with the exception handled inside it,
\* and the request it belongs to is answered 202 and nothing else.
C8_TaskErrorsAreSwallowed ==
  \A t \in TaskThreads :
    /\ exc[t] # "escaped"
    /\ exc[t] = "caught" => (pc[t] = "done" /\ reqs[t] = <<>>)
    /\ pc[t] # "none" =>
         /\ fetch[t[2]].error = ""
         /\ resp[t[2]] = IF pc[ReqThread(t[2])] = "done"
                           THEN [body |-> "", code |-> 202] ELSE NoResp

\* C8 witness: after the 202 one task has raised and the other has had its
\* POST refused with status 500; both are done.
C8_Witness ==
  \E r \in Requests :
    /\ resp[r].code = 202
    /\ exc[<<"wellbeing", r>>] = "caught"
    /\ pc[<<"guidance", r>>] = "done"
    /\ reqs[<<"guidance", r>>] = <<500>>

\* C9: a task sends its POST only after its own computation has ended
\* without exception, only its own exception keeps it from sending it, and
\* each of its steps can be taken whatever the state of the other task of
\* the request (queued, running, failed or done).
C9_TasksAreIndependent ==
  \A t \in TaskThreads :
    /\ reqs[t] # <<>> =>
         (pc[t] = "done" /\ exc[t] = "none" /\ Len(reqs[t]) = 1
          /\ ~ComputeRaises(t[1], info[t[2]], DEEPSEEK_API_KEY))
    /\ (pc[t] = "done" /\ reqs[t] = <<>>) =>
         (exc[t] = "caught" /\ ComputeRaises(t[1], info[t[2]], DEEPSEEK_API_KEY))
    /\ (pc[t] = "queued" /\ Cardinality(Running) < max_workers) => ENABLED StartTask(t)
    /\ pc[t] = "running" => ENABLED Compute(t)
    /\ pc[t] = "login" => ENABLED LoginResponse(t, "neterr")
    /\ pc[t] = "send" => ENABLED Post(t, 201)

\* C9 witness: the guidance task has sent its POST although the wellbeing
\* task, submitted before it, has raised.
C9_Witness ==
  \E r \in Requests :
    /\ reqs[<<"guidance", r>>] = <<201>>
    /\ exc[<<"wellbeing", r>>] = "caught"

\* C10: for every habits summary, calculate_habits_stress_score returns a
\* value in [0,30]; for a summary with entries that value is the sum of 15
\* sub-scores, one per field, each in {0,1,2} and equal to 1 when the field
\* is absent; for an absent or empty summary it is 15.
C10_HabitsScoreIsBoundedSum ==
  /\ [](/\ hab.ret \subseteq 0..30
        /\ (hab.ret # {} /\ NoSummary(hab.kind)) => (hab.ret = {15} /\ hab.i = 0)
        /\ (hab.ret # {} /\ ~NoSummary(hab.kind)) =>
             (hab.i = 15 /\ hab.ret = {hab.score})
        /\ hab.i >= 1 => /\ hab.sub \in {0, 1, 2}
                         /\ hab.val = {} => hab.sub = 1
        /\ hab.i = 0 => hab.score = 0
        /\ hab.absent <= hab.i
        /\ hab.absent = hab.i => hab.score = hab.i)
  /\ [][hab'.i # hab.i =>
          /\ hab'.i = hab.i + 1
          /\ hab'.score = hab.score + hab'.sub
          /\ hab'.absent = hab.absent + (IF hab'.val = {} THEN 1 ELSE 0)]_vars

\* C10 witness: a summary with four absent fields and the worst value in
\* each of the eleven others has been scored 26.
C10_Witness ==
  /\ hab.kind = "present"
  /\ hab.absent = 4
  /\ hab.ret = {26}

\* C11: calculate_pulse_stress_score returns a value in [6,30] for every
\* pulse, and exactly 18 for a missing pulse, a missing rating and a rating
\* that is zero or negative.
C11_PulseScoreInBand ==
  pul.ret # {} =>
    /\ pul.ret \subseteq (6 * Scale)..(30 * Scale)
    /\ (pul.kind \in {"absent", "empty", "norating"} \/ pul.rating <= 0)
         => pul.ret = {18 * Scale}

\* C11 witness: a pulse with rating 0 has been scored 18.
C11_Witness ==
  /\ pul.kind = "rated"
  /\ pul.rating = 0
  /\ pul.ret = {18 * Scale}

\* C12 as stated: for any two positive ratings r1 <= r2 the score of r1 is
\* at least the score of r2.
C12_HigherRatingNeverHigherScore ==
  (pul.ret # {} /\ pul.kind = "rated" /\ pul.rating > 0) =>
    \A r2 \in Ratings :
      r2 >= pul.rating =>
        calculate_pulse_stress_score("rated", r2) <= Val(pul.ret)

\* C12 amended: the score is non-increasing in the rating among the ratings
\* below 6 and among the ratings from 6 on (the two scales of line 508).
C12_HigherRatingNeverHigherScoreOnOneScale ==
  (pul.ret # {} /\ pul.kind = "rated" /\ pul.rating > 0) =>
    \A r2 \in Ratings :
      (r2 >= pul.rating /\ (TenScale(r2) <=> TenScale(pul.rating))) =>
        calculate_pulse_stress_score("rated", r2) <= Val(pul.ret)

\* C12 witness: rating 5 has been scored 6, below the score of rating 6.
C12_Witness ==
  /\ pul.kind = "rated"
  /\ pul.rating = 50
  /\ pul.ret = {6 * Scale}
  /\ calculate_pulse_stress_score("rated", 60) > 6 * Scale

\* C13: without LLM credential the complaints score of a list of n
\* complaints is min(30, 5 * n), whatever the complaints contain, and no LLM
\* call is made.
C13_NoCredentialCountsComplaints ==
  DEEPSEEK_API_KEY = "" =>
    /\ cmp.stage \in {"called", "returned"}
    /\ cmp.calls = 0
    /\ cmp.stage = "returned" => cmp.ret = {Min(30, 5 * cmp.n) * Scale}

\* C13 witness: three complaints without description have been scored 15.
C13_Witness ==
  /\ DEEPSEEK_API_KEY = ""
  /\ cmp.stage = "returned"
  /\ cmp.n = 3
  /\ cmp.described = 0
  /\ cmp.ret = {15 * Scale}

\* C14: with an LLM credential the complaints score is in [0,30]; a numeric
\* reply gives the number clamped to [0,30]; an unparseable reply, a status
\* other than 200 and an exception give min(30, 5 * n).
C14_LlmFailureFallsBack ==
  (DEEPSEEK_API_KEY # "" /\ cmp.stage = "returned") =>
    /\ cmp.ret \subseteq 0..(30 * Scale)
    /\ cmp.reply.kind \in {"exception", "non200", "unparseable"} =>
         (cmp.n >= 1 /\ cmp.ret = {Min(30, 5 * cmp.n) * Scale})
    /\ cmp.reply.kind = "number" =>
         cmp.ret = {IF cmp.reply.value < 0 THEN 0
                    ELSE IF cmp.reply.value > 300 THEN 30 * Scale
                    ELSE 3 * cmp.reply.value}
    /\ cmp.reply.kind # "none" => (cmp.calls = 1 /\ cmp.n >= 1)
    /\ cmp.calls = 0 => cmp.reply = NoReply

\* C14 witness: the reply to a list of two complaints was not a number and
\* the list has been scored 10.
C14_Witness ==
  /\ DEEPSEEK_API_KEY # ""
  /\ cmp.stage = "returned"
  /\ cmp.reply.kind = "unparseable"
  /\ cmp.n = 2
  /\ cmp.ret = {10 * Scale}

\* C16 as stated: for every whole stress score s in 0..90 the percentage is
\* s / 90 * 100 rounded to the nearest whole number, clamped to [0,100].
C16_PercentageIsRounded ==
  (pres.pct # {} /\ pres.score \in 0..(90 * Scale) /\ pres.score % Scale = 0) =>
    pres.pct = {Clamp(Rounded(pres.score), 0, 100)}

\* C16 amended: for every whole stress score s in 0..90 the percentage is
\* s / 90 * 100 cut off to its integer part (clamped to [0,100]); for every
\* score in 0..90 it is never above s / 90 * 100 and less than 1 below it,
\* or exactly 1 below it at a float shortfall.
C16_PercentageIsTruncated ==
  (pres.pct # {} /\ pres.score \in 0..(90 * Scale)) =>
    /\ pres.score % Scale = 0 =>
         pres.pct = {((pres.score \div Scale) * 100) \div 90}
    /\ Val(pres.pct) * 90 * Scale <= pres.score * 100
    /\ pres.score * 100 <= (Val(pres.pct) + 1) * 90 * Scale
    /\ pres.score * 100 = (Val(pres.pct) + 1) * 90 * Scale
         => pres.score \in FloatShortfall

\* C16 witness: the score 33 has been given the percentage 36, where
\* rounding gives 37.
C16_Witness ==
  /\ pres.score = 33 * Scale
  /\ pres.pct = {36}
  /\ Rounded(pres.score) = 37

\* C18: stress_score_to_percentage is non-decreasing, returns a value in
\* [0,100], and maps 0 to 0 and 90 to 100.
C18_PercentageMonotoneWithEndpoints ==
  pres.pct # {} =>
    /\ pres.pct \subseteq 0..100
    /\ pres.score = 0 => pres.pct = {0}
    /\ pres.score = 90 * Scale => pres.pct = {100}
    /\ \A s2 \in Scores :
         s2 >= pres.score => stress_score_to_percentage(s2) >= Val(pres.pct)

\* C18 witness: the score 90 has been given the percentage 100.
C18_Witness ==
  /\ pres.score = 90 * Scale
  /\ pres.pct = {100}

\* C19: get_stress_color returns GREEN up to 30, YELLOW above 30 up to 60,
\* ORANGE above 60 up to 75 and RED above 75, and the colour never goes down
\* when the score goes up.
C19_ColourBandsUpperInclusive ==
  pres.stage = "payload" =>
    /\ pres.colour \in {"GREEN", "YELLOW", "ORANGE", "RED"}
    /\ pres.colour = "GREEN" <=> pres.score <= 30 * Scale
    /\ pres.colour = "YELLOW" <=> (30 * Scale < pres.score /\ pres.score <= 60 * Scale)
    /\ pres.colour = "ORANGE" <=> (60 * Scale < pres.score /\ pres.score <= 75 * Scale)
    /\ pres.colour = "RED" <=> pres.score > 75 * Scale
    /\ \A s2 \in Scores :
         s2 >= pres.score =>
           ColourRank(get_stress_color(s2)) >= ColourRank(pres.colour)

\* C19 witness: the score 75 has been given the colour ORANGE and the score
\* 76 is RED.
C19_Witness ==
  /\ pres.stage = "payload"
  /\ pres.score = 75 * Scale
  /\ pres.colour = "ORANGE"
  /\ get_stress_color(76 * Scale) = "RED"

\* C15: calculate_stress_score returns the sum of the habits, complaints and
\* pulse scores clamped to [0,90]; the result is in [0,90] and does not
\* decrease when one of the three scores is raised and the others are kept.
C15_StressScoreIsClampedSum ==
  tot.stage = "returned" =>
    LET h == tot.habits_score
        c == tot.complaints_score
        p == tot.pulse_score
        s == h + c + p IN
    /\ tot.ret = {IF s < 0 THEN 0 ELSE IF s > 90 * Scale THEN 90 * Scale ELSE s}
    /\ tot.ret \subseteq 0..(90 * Scale)
    /\ \A x \in HabitScoreValues : x >= h => StressTotal(x, c, p) >= Val(tot.ret)
    /\ \A x \in ComplaintScoreValues : x >= c => StressTotal(h, x, p) >= Val(tot.ret)
    /\ \A x \in PulseScoreValues : x >= p => StressTotal(h, c, x) >= Val(tot.ret)

\* C15 witness: the scores 30, 30 and 30 have been added up to 90.
C15_Witness ==
  /\ tot.stage = "returned"
  /\ tot.habits_score = 30 * Scale
  /\ tot.complaints_score = 30 * Scale
  /\ tot.pulse_score = 30 * Scale
  /\ tot.ret = {90 * Scale}

\* C17: with the habits summary absent, no complaints and the pulse absent
\* the stress score is 15 + 0 + 18 = 33, and the wellbeing payload carries
\* the percentage 36 and the colour YELLOW.
C17_NeutralSnapshotScenario ==
  (tot.noHabits /\ tot.noComplaints /\ tot.noPulse) =>
    /\ tot.stage \in {"sum", "returned"} =>
         /\ tot.habits_score = 15 * Scale
         /\ tot.complaints_score = 0
         /\ tot.pulse_score = 18 * Scale
    /\ tot.stage = "returned" => tot.ret = {33 * Scale}
    /\ pres.stage \in {"percent", "payload"} => pres.pct = {36}
    /\ pres.stage = "payload" => pres.colour = "YELLOW"

\* C17 witness: the payload of the neutral snapshot is ready.
C17_Witness ==
  /\ tot.noHabits /\ tot.noComplaints /\ tot.noPulse
  /\ tot.ret = {33 * Scale}
  /\ pres.stage = "payload"
  /\ pres.pct = {36}
  /\ pres.colour = "YELLOW"

\* C20: every list generate_personalized_habits returns has 2 or 3 elements,
\* each of at most 200 characters.
C20_TwoOrThreeShortHabits ==
  gh.stage = "returned" =>
    /\ Len(gh.ret) \in {2, 3}
    /\ \A i \in 1..Len(gh.ret) : gh.ret[i] <= 200

\* C21: on the LLM path of generate_personalized_habits, a reply that contains
\* a JSON array of more than three valid strings yields its first three
\* elements in order, each cut to 200 characters; a reply that fails to parse,
\* is no list, or has an element that is neither a non-empty string nor a
\* description object yields the 2-item fallback list.
C21_FirstThreeOrFallback ==
  gh.stage = "returned" /\ gh.path # "heuristic" =>
    LET items == gh.reply.items IN
    /\ (/\ gh.reply.kind = "list"
        /\ Len(items) > 3
        /\ \A i \in 1..Len(items) : items[i].kind = "str")
         => gh.ret = [i \in 1..3 |-> Min(200, items[i].len)]
    /\ (\/ gh.reply.kind # "list"
        \/ \E i \in 1..Len(items) : items[i].kind \notin {"str", "dict"})
         => gh.ret = FallbackHabits

\* C22: with an LLM credential, generate_wellbeing_gist returns (it never
\* raises) a text that is never empty: the content of the reply, stripped, when
\* the call answered 200 with a content that is not blank, and the apology when
\* the content is missing or blank, the status is not 200, the call or the
\* reading of its body raises, or the prompt could not be built.
C22_GistIsContentOrApology ==
  DEEPSEEK_API_KEY # "" =>
    /\ gist.stage = "called" => ENABLED GistStart
    /\ gist.stage = "llm" => ENABLED GistReply
    /\ gist.stage = "returned" =>
         /\ gist.ret.len > 0
         /\ gist.ret.source \in {"content", "apology"}
         /\ (gist.reply.kind = "text" /\ strip(gist.reply.content) # <<>>)
              => gist.ret = [source |-> "content", len |-> Len(strip(gist.reply.content))]
         /\ (\/ gist.reply.kind \in {"none", "exception", "non200", "malformed", "nocontent"}
             \/ gist.reply.kind = "text" /\ strip(gist.reply.content) = <<>>)
              => gist.ret = Apology

\* The LLM answered with a text wrapped in blanks, and its core is returned.
C22_Witness ==
  /\ DEEPSEEK_API_KEY # ""
  /\ gist.stage = "returned"
  /\ gist.reply = [kind |-> "text", content |-> <<" ", "x", " ">>]
  /\ gist.ret = [source |-> "content", len |-> 1]

\* C24: without LLM credential, gist_parts is never empty when
\* generate_wellbeing_gist returns, because the complaints branch always adds
\* its sentence; the "balanced lifestyle" text is never returned.
C24_HeuristicGistNeverBalanced ==
  gist.stage = "returned" /\ DEEPSEEK_API_KEY = "" =>
    /\ gist.gist_parts # <<>>
    /\ \E i \in 1..Len(gist.gist_parts) :
         gist.gist_parts[i] \in {LenComplaintsNone, LenComplaintsSome + LenCount(gist.n)}
    /\ gist.ret.source = "joined"
    /\ gist.ret.len > 0

\* A snapshot without habits, complaints and pulse: the sentence of the
\* complaints branch is the whole text.
C24_Witness ==
  /\ DEEPSEEK_API_KEY = ""
  /\ gist.stage = "returned"
  /\ gist.habits = "absent" /\ gist.n = 0 /\ gist.pulse = "absent"
  /\ gist.gist_parts = <<LenComplaintsNone>>
  /\ gist.ret = [source |-> "joined", len |-> LenComplaintsNone]

\* The tokens thread t sent with its data requests, in order.
SentTokens(t) ==
  LET sends == SelectSeq(trace[t], LAMBDA e : e.op = "send") IN
  [i \in 1..Len(sends) |-> sends[i].token]

\* The tokens (0: none) of the logins thread t made after its first data
\* request, in order: the logins of its recovery.
RecoveryLogins(t) ==
  LET sent(i) == \E j \in 1..(i - 1) : trace[t][j].op = "send"
      idx == {i \in 1..Len(trace[t]) : trace[t][i].op = "login" /\ sent(i)}
      RECURSIVE tokens(_)
      tokens(i) ==
        IF i > Len(trace[t]) THEN <<>>
        ELSE IF i \in idx THEN <<trace[t][i].token>> \o tokens(i + 1)
        ELSE tokens(i + 1) IN
  tokens(1)

\* Both calls sent their first request with the same cached token and both
\* were answered 401/403, while no other call has started.
RacedOnStaleToken(r1, r2) ==
  LET t1 == ReqThread(r1)
      t2 == ReqThread(r2) IN
  /\ r1 # r2
  /\ SentTokens(t1) # <<>> /\ SentTokens(t2) # <<>>
  /\ SentTokens(t1)[1] # 0
  /\ SentTokens(t1)[1] = SentTokens(t2)[1]
  /\ IsAuthFailure(reqs[t1][1]) /\ IsAuthFailure(reqs[t2][1])
  /\ \A r \in Requests \ {r1, r2} : pc[ReqThread(r)] = "start"

\* The call has cleared the cache and its second get_auth_headers returned.
Recovered(r) ==
  LET t == ReqThread(r) IN
  clears[t] = 1 /\ pc[t] \in {"send", "fetched"}

\* C23: when two concurrent get_student_info calls sent the same stale token
\* and both got 401/403, their recoveries make at most two logins in total;
\* once both have recovered the cache does not hold the stale token, and when
\* all those logins succeeded it holds a token one of them returned.
C23_RacingRecoveryAtMostTwoLogins ==
  \A r1, r2 \in Requests :
    RacedOnStaleToken(r1, r2) =>
      LET stale == SentTokens(ReqThread(r1))[1]
          logins == RecoveryLogins(ReqThread(r1)) \o RecoveryLogins(ReqThread(r2)) IN
      /\ Len(logins) <= 2
      /\ (Recovered(r1) /\ Recovered(r2)) =>
           /\ jwt_token # stale
           /\ Len(logins) >= 1
           /\ (\A i \in 1..Len(logins) : logins[i] # 0)
                => \E i \in 1..Len(logins) : jwt_token = logins[i]

\* The worst case: both calls logged in again, both logins succeeded, and the
\* cache holds the token of the later one.
C23_Witness ==
  /\ RacedOnStaleToken(1, 2)
  /\ Recovered(1) /\ Recovered(2)
  /\ Len(RecoveryLogins(ReqThread(1))) = 1
  /\ Len(RecoveryLogins(ReqThread(2))) = 1
  /\ RecoveryLogins(ReqThread(1))[1] # 0
  /\ RecoveryLogins(ReqThread(2))[1] # 0
  /\ jwt_token = RecoveryLogins(ReqThread(2))[1]
  /\ jwt_token > RecoveryLogins(ReqThread(1))[1]

====
